---------------------------- MODULE Spec2Model ----------------------------
(***************************************************************************)
(* A model of scrape.py, the VTuber discovery pipeline: the Store          *)
(* (cache/candidates.json, cache/approved.json), the rendered site under   *)
(* docs/, and one run of main() at a time (collect, approve, approve-all,  *)
(* generate, status).                                                      *)
(*                                                                         *)
(* Conventions                                                             *)
(*  - a Python string is a sequence of one-character strings; the empty    *)
(*    string is << >>.                                                     *)
(*  - an ISO-8601 timestamp is the number of half-days since an epoch      *)
(*    wrapped in a one-element sequence, so that "" (falsy) is << >> and   *)
(*    "whole days" is a real floor.                                        *)
(*  - an optional dictionary key (approved_at, introduction) is a sequence *)
(*    of length 0 (key absent) or 1.                                       *)
(*  - a file is [state, data]: state is "absent", "corrupt" (exists, not   *)
(*    parsable as JSON) or "ok".                                           *)
(***************************************************************************)
EXTENDS Integers, Sequences, FiniteSets, TLC

VARIABLES
    candidatesFile,   \* cache/candidates.json
    approvedFile,     \* cache/approved.json
    cacheDir,         \* cache/ exists
    publicDir,        \* docs/ exists
    output,           \* the documents under docs/
    pc,               \* position of the running process
    mode,             \* sys.argv[1] of the current / last run
    youtubeKey,       \* YOUTUBE_API_KEY is set (current / last run)
    openaiKey,        \* OPENAI_API_KEY is set (current / last run)
    exit,             \* how the last run ended
    candidates,       \* local `candidates` of main / cli_approve
    pending,          \* local `pending` of main / cli_approve
    idx,              \* position of `for c in pending` (approve-all)
    indices,          \* rest of `for idx in indices` (cli_approve)
    approved_entry,   \* second component returned by approve_candidate
    all_channel_ids,  \* local of collect_candidates
    qi,               \* position of `for query in SEARCH_QUERIES`
    lastFetch,        \* the last api_request call of the run
    textCall,         \* the text-generation call of the last approval
    net,              \* what the run's api_request calls did so far
    clock,            \* datetime.now(): it ticks with every approval
    atStart,          \* the Store and docs/ when the run started
    filesRead,        \* files the run passed to load_json
    fChannel,         \* filter harness: the channel under test
    fThreshold,       \* filter harness: the popularity threshold
    fResult           \* filter harness: what passes_filters returned

vars == << candidatesFile, approvedFile, cacheDir, publicDir, output, pc,
           mode, youtubeKey, openaiKey, exit, candidates, pending, idx,
           indices, approved_entry, all_channel_ids, qi, lastFetch,
           textCall, net,
           clock, atStart, filesRead, fChannel, fThreshold, fResult >>

storeVars  == << candidatesFile, approvedFile, cacheDir, publicDir, output >>
filterVars == << fChannel, fThreshold, fResult >>

(***************************************************************************)
(* Bounds of the model                                                     *)
(***************************************************************************)
MaxClock == 2         \* approvals made, each at its own time
MaxApproved == 41     \* records of the approved collection handed to a render

(***************************************************************************)
(* Configuration (scrape.py lines 35-61)                                    *)
(***************************************************************************)
SEARCH_QUERIES       == << "q1", "q2", "q3", "q4", "q5" >>
MAX_SUBSCRIBERS      == 1000
MAX_CHANNEL_AGE_DAYS == 90
MIN_VIDEOS           == 3
ITEMS_PER_PAGE       == 20
RSS_ITEMS            == 20
HIDDEN_SUBSCRIBERS   == 0 - 1

\* VTUBER_KEYWORDS, reduced to one mixed-case and one lower-case keyword
\* (as "Live2D" and "vtuber" in the source list).
VTUBER_KEYWORDS == << <<"L", "d">>, <<"v">> >>

(***************************************************************************)
(* Generic helpers                                                         *)
(***************************************************************************)
Ids(s) == { s[i].channel_id : i \in DOMAIN s }

Count(s, cid) == Cardinality({ i \in DOMAIN s : s[i].channel_id = cid })

NoDuplicateIds(s) == \A i, j \in DOMAIN s : s[i].channel_id = s[j].channel_id => i = j

\* str.lower() on one character of the model's alphabet
LowerChar(c) ==
    CASE c = "V" -> "v"
      [] c = "L" -> "l"
      [] c = "D" -> "d"
      [] OTHER   -> c

\* str.lower()
Lower(s) == [i \in DOMAIN s |-> LowerChar(s[i])]

\* `kw in text` for Python strings
IsSubstring(kw, text) ==
    \E k \in 0 .. (Len(text) - Len(kw)) :
        \A i \in 1 .. Len(kw) : text[k + i] = kw[i]

(***************************************************************************)
(* Time                                                                    *)
(***************************************************************************)
\* datetime.now(timezone.utc) while filtering, in half-days since the epoch
Today == 400

\* days_ago: (now - dt).days, the floor of the difference in days (two
\* half-days a day)
days_ago(date_str) == (Today - date_str[1]) \div 2

\* parse_iso8601 / datetime.fromisoformat raises ValueError on ""
ParseRaises(date_str) == date_str = << >>

(***************************************************************************)
(* Filtering (passes_filters, is_likely_vtuber)                            *)
(***************************************************************************)
is_likely_vtuber(channel) ==
    LET text == Lower(channel.title \o <<" ">> \o channel.description
                      \o <<" ">> \o channel.keywords)
    IN  \E k \in DOMAIN VTUBER_KEYWORDS : IsSubstring(Lower(VTUBER_KEYWORDS[k]), text)

\* the subscriber test without the exemption of the hidden count
TooPopular_NoSentinel(sub_count, maxSubs) == sub_count > maxSubs

\* the subscriber test of passes_filters, line 304
TooPopular(sub_count, maxSubs) == sub_count > maxSubs /\ sub_count # HIDDEN_SUBSCRIBERS

\* the age test with the bound off by one
TooOld_Strict(pub_date) == pub_date # << >> /\ days_ago(pub_date) >= MAX_CHANNEL_AGE_DAYS

\* the age test of passes_filters, lines 308-311
TooOld(pub_date) == pub_date # << >> /\ days_ago(pub_date) > MAX_CHANNEL_AGE_DAYS

\* passes_filters with the module constant MAX_SUBSCRIBERS as a parameter
passes_filters_with(channel, maxSubs) ==
    IF TooPopular(channel.subscriber_count, maxSubs)
      THEN [passes |-> FALSE, reason |-> "subscribers"]
    ELSE IF TooOld(channel.published_at)
      THEN [passes |-> FALSE, reason |-> "age"]
    ELSE IF channel.video_count < MIN_VIDEOS
      THEN [passes |-> FALSE, reason |-> "videos"]
    ELSE IF ~is_likely_vtuber(channel)
      THEN [passes |-> FALSE, reason |-> "keyword"]
    ELSE [passes |-> TRUE, reason |-> "OK"]

passes_filters(channel) == passes_filters_with(channel, MAX_SUBSCRIBERS)

(***************************************************************************)
(* Files (load_json, save_json)                                            *)
(***************************************************************************)
AbsentFile  == [state |-> "absent",  data |-> << >>]
CorruptFile == [state |-> "corrupt", data |-> << >>]

\* json.load raises JSONDecodeError on an unparsable file; load_json has no
\* handler for it
LoadRaises(file) == file.state = "corrupt"

\* load_json(path, []) when it returns
load_json(file) == IF file.state = "ok" THEN file.data ELSE << >>

save_json(data) == [state |-> "ok", data |-> data]

(***************************************************************************)
(* The YouTube Data API (api_request and its callers)                      *)
(***************************************************************************)
\* What urlopen / json.loads can do inside api_request's try block:
\*   ok          a JSON body is returned
\*   http_error  HTTPError (a 5xx, or 403 on quota: the same path but for one
\*               more line printed), caught at line 105
\*   url_error   URLError (no route, connect timeout), caught at line 110
\*   exception   anything else (json.JSONDecodeError on a non-JSON body,
\*               TimeoutError while reading): no handler, it propagates
FetchOutcomes == {"ok", "http_error", "url_error", "exception"}
HandledFailures == {"http_error", "url_error"}

NoFetch == [called |-> FALSE, outcome |-> "none", attempts |-> 0, nodata |-> FALSE]

\* api_request: one urlopen call, then the body or {} is returned
api_request(outcome) ==
    [called |-> TRUE, outcome |-> outcome, attempts |-> 1,
     nodata |-> outcome \in HandledFailures]

ApiRaises(outcome) == outcome = "exception"

\* issued: a request was made; allFailed: every request so far ended in a
\* handled failure; raised: a request raised out of api_request
NoNet == [issued |-> FALSE, allFailed |-> TRUE, raised |-> FALSE]

NetAfter(n, outcome) ==
    [issued |-> TRUE, allFailed |-> n.allFailed /\ outcome \in HandledFailures,
     raised |-> n.raised \/ ApiRaises(outcome)]

ChannelIds == {"a", "b", "c"}

\* The record get_channel_details builds for a channel (lines 212-223):
\*   a  a young channel with a matching title
\*   b  hidden subscriber count, no publishedAt in the response, keyword in
\*      the description
\*   c  too many subscribers
ApiDetail(cid) ==
    CASE cid = "a" ->
           [channel_id |-> "a", title |-> <<"V">>, description |-> << >>,
            keywords |-> << >>, published_at |-> <<Today - 20>>,
            subscriber_count |-> 500, video_count |-> 3]
      [] cid = "b" ->
           [channel_id |-> "b", title |-> <<"x">>, description |-> <<"l", "D">>,
            keywords |-> << >>, published_at |-> << >>,
            subscriber_count |-> HIDDEN_SUBSCRIBERS, video_count |-> 5]
      [] OTHER ->
           [channel_id |-> cid, title |-> <<"V">>, description |-> << >>,
            keywords |-> << >>, published_at |-> <<Today - 20>>,
            subscriber_count |-> MAX_SUBSCRIBERS + 1, video_count |-> 3]

\* The pending record collect_candidates makes of a detail (lines 439-441);
\* latest_videos, introduction and approved_at are keys approve_candidate adds
Candidate(detail, now) ==
    [channel_id |-> detail.channel_id, title |-> detail.title,
     description |-> detail.description, keywords |-> detail.keywords,
     published_at |-> detail.published_at,
     subscriber_count |-> detail.subscriber_count,
     video_count |-> detail.video_count,
     discovered_at |-> <<now>>, status |-> "pending",
     latest_videos |-> << >>, introduction |-> << >>, approved_at |-> << >>]

\* All orders in which the channels of S can come back from the API
Orders(S) ==
    { o \in [1 .. Cardinality(S) -> S] : \A i, j \in DOMAIN o : o[i] = o[j] => i = j }

\* The new candidates of collect_candidates, lines 431-444: the details that
\* pass the filter, in the order of `details`, stamped with the time read
RECURSIVE NewCandidates(_, _)
NewCandidates(order, now) ==
    IF order = << >> THEN << >>
    ELSE IF passes_filters(ApiDetail(Head(order))).passes
      THEN <<Candidate(ApiDetail(Head(order)), now)>> \o NewCandidates(Tail(order), now)
      ELSE NewCandidates(Tail(order), now)

(***************************************************************************)
(* Approval (approve_candidate, generate_introduction)                     *)
(***************************************************************************)
\* s[:n]
Take(s, n) == SubSeq(s, 1, IF Len(s) < n THEN Len(s) ELSE n)

\* str.split(chr(10))[0]
RECURSIVE FirstLine(_)
FirstLine(s) ==
    IF s = << >> \/ Head(s) = "\n" THEN << >> ELSE <<Head(s)>> \o FirstLine(Tail(s))

generate_fallback_introduction(channel) ==
    IF channel.description # << >>
      THEN channel.title \o <<"!">> \o FirstLine(Take(channel.description, 100))
      ELSE channel.title \o <<"!">> \o <<"~">>

\* generate_introduction: `reply` is "none" when the call to the
\* text-generation API raised, else the text it returned
generate_introduction(channel, hasKey, reply) ==
    IF ~hasKey THEN generate_fallback_introduction(channel)
    ELSE IF reply = "none" THEN generate_fallback_introduction(channel)
    ELSE <<"G">>

Replies(hasKey) == IF hasKey THEN {"none", "text"} ELSE {"none"}

\* what generate_introduction did with the text-generation API: without the
\* credential it returns before any request is built (lines 332-333); any
\* exception of the call is caught at line 372
text_generation_call(hasKey, reply) ==
    IF ~hasKey THEN "skipped"
    ELSE IF reply = "none" THEN "failed"
    ELSE "ok"

NoCall == [called |-> FALSE, entry |-> << >>]

Last(S) == CHOOSE i \in S : \A j \in S : j <= i

\* approve_candidate returning the list it was given instead of `remaining`
approve_candidate_KeepsTarget(cands, file, channel_id, videos, hasKey, reply, now) ==
    LET hits   == { i \in DOMAIN cands : cands[i].channel_id = channel_id }
        found  == cands[Last(hits)]
        target == [found EXCEPT !.latest_videos = videos,
                                !.introduction =
                                    <<generate_introduction(found, hasKey, reply)>>,
                                !.status = "approved",
                                !.approved_at = <<now>>]
    IN  IF hits = {}
          THEN [candidates |-> cands, entry |-> << >>, file |-> file]
          ELSE [candidates |-> cands, entry |-> <<target>>,
                file |-> save_json(load_json(file) \o <<target>>)]

\* approve_candidate saving the new entry alone instead of the list read
\* with the entry appended
approve_candidate_Overwrites(cands, file, channel_id, videos, hasKey, reply, now) ==
    LET hits      == { i \in DOMAIN cands : cands[i].channel_id = channel_id }
        remaining == SelectSeq(cands, LAMBDA c : c.channel_id # channel_id)
        found     == cands[Last(hits)]
        target    == [found EXCEPT !.latest_videos = videos,
                                   !.introduction =
                                       <<generate_introduction(found, hasKey, reply)>>,
                                   !.status = "approved",
                                   !.approved_at = <<now>>]
    IN  IF hits = {}
          THEN [candidates |-> cands, entry |-> << >>, file |-> file]
          ELSE [candidates |-> remaining, entry |-> <<target>>,
                file |-> save_json(<<target>>)]

\* approve_candidate when it returns: the remaining candidates, the approved
\* entry (None is << >>) and cache/approved.json afterwards
approve_candidate(cands, file, channel_id, videos, hasKey, reply, now) ==
    LET hits      == { i \in DOMAIN cands : cands[i].channel_id = channel_id }
        remaining == SelectSeq(cands, LAMBDA c : c.channel_id # channel_id)
        found     == cands[Last(hits)]
        target    == [found EXCEPT !.latest_videos = videos,
                                   !.introduction =
                                       <<generate_introduction(found, hasKey, reply)>>,
                                   !.status = "approved",
                                   !.approved_at = <<now>>]
    IN  IF hits = {}
          THEN [candidates |-> cands, entry |-> << >>, file |-> file]
          ELSE [candidates |-> remaining, entry |-> <<target>>,
                file |-> save_json(load_json(file) \o <<target>>)]

(***************************************************************************)
(* Rendering (write_all_files and the generators it calls)                 *)
(***************************************************************************)
NoOutput ==
    [css |-> FALSE, index |-> [f \in {} |-> << >>], vtuber |-> [c \in {} |-> << >>],
     robots |-> FALSE,
     sitemap |-> << >>, feed |-> << >>, cname |-> FALSE]

\* the sort key of write_all_files and generate_rss
SortKey(x) == IF x.approved_at # << >> THEN x.approved_at[1] ELSE x.discovered_at[1]

\* sorted(..., reverse=True): descending and stable
RECURSIVE InsertDesc(_, _)
InsertDesc(x, s) ==
    IF s = << >> THEN <<x>>
    ELSE IF SortKey(Head(s)) >= SortKey(x) THEN <<Head(s)>> \o InsertDesc(x, Tail(s))
    ELSE <<x>> \o s

RECURSIVE SortedDesc(_)
SortedDesc(s) ==
    IF s = << >> THEN << >>
    ELSE InsertDesc(s[Len(s)], SortedDesc(SubSeq(s, 1, Len(s) - 1)))

\* the page count without its minimum of one
TotalPages_NoMinimum(n) == (n + ITEMS_PER_PAGE - 1) \div ITEMS_PER_PAGE

\* max(1, math.ceil(n / ITEMS_PER_PAGE))
TotalPages(n) ==
    LET c == (n + ITEMS_PER_PAGE - 1) \div ITEMS_PER_PAGE
    IN  IF c < 1 THEN 1 ELSE c

\* approved[start:end]
Slice(s, start, end) ==
    SubSeq(s, start + 1, IF end < Len(s) THEN end ELSE Len(s))

\* str.replace(ch, rep): every occurrence of the character ch becomes rep
RECURSIVE Replace(_, _, _)
Replace(s, ch, rep) ==
    IF s = << >> THEN << >>
    ELSE (IF Head(s) = ch THEN rep ELSE <<Head(s)>>) \o Replace(Tail(s), ch, rep)

\* .replace("&", "&amp;").replace("<", "&lt;").replace(">", "&gt;")
escape_html(s) ==
    Replace(Replace(Replace(s, "&", <<"&", "a", "m", "p", ";">>),
                    "<", <<"&", "l", "t", ";">>),
            ">", <<"&", "g", "t", ";">>)

\* the same, then .replace(chr(10), "<br>") (lines 847, 1003). A document is
\* a sequence of tokens: a character that comes from a text field is a
\* one-character string, a tag of the template is one longer string.
escape_intro(s) == Replace(escape_html(s), "\n", <<"<br>">>)

\* vtuber.get("introduction", "")
IntroOf(vtuber) == IF vtuber.introduction = << >> THEN << >> ELSE vtuber.introduction[1]

\* the video links of a card: the titles escaped (lines 854-857)
RECURSIVE CardVideoLinks(_)
CardVideoLinks(videos) ==
    IF videos = << >> THEN << >>
    ELSE <<"<a class=video-link>">> \o escape_html(Head(videos).title) \o <<"</a>">>
         \o CardVideoLinks(Tail(videos))

\* the embedded videos of a detail page: the titles as they are (lines
\* 983-995)
RECURSIVE PageVideos(_)
PageVideos(videos) ==
    IF videos = << >> THEN << >>
    ELSE <<"<iframe>", "<p>">> \o Head(videos).title \o <<"</p>">>
         \o PageVideos(Tail(videos))

\* render_vtuber_card: the card of a record on an index page. The name goes
\* into the alt attribute and the link text as it is (lines 869, 873).
render_vtuber_card(vtuber) ==
    LET name   == vtuber.title
        intro  == IntroOf(vtuber)
        videos == vtuber.latest_videos
        intro_html  == IF intro # << >>
                         THEN <<"<div class=card-intro>">> \o escape_intro(intro) \o <<"</div>">>
                         ELSE << >>
        videos_html == IF videos # << >>
                         THEN <<"<div class=card-videos>">> \o CardVideoLinks(Take(videos, 3))
                              \o <<"</div>">>
                         ELSE << >>
    IN  [channel_id |-> vtuber.channel_id,
         subscriber_count |-> vtuber.subscriber_count,
         published_at |-> vtuber.published_at,
         html |-> <<"<article>", "<img alt=">> \o name \o <<"/>", "<a>">> \o name \o <<"</a>">>
                  \o intro_html \o videos_html \o <<"</article>">>]

generate_index_page(approved, page, total_pages) ==
    LET start      == (page - 1) * ITEMS_PER_PAGE
        page_items == Slice(approved, start, start + ITEMS_PER_PAGE)
    IN  [cards |-> [i \in DOMAIN page_items |-> render_vtuber_card(page_items[i])],
         count |-> Len(approved), page |-> page, total_pages |-> total_pages]

\* generate_vtuber_page formats published_at without testing it (line 1018):
\* format_date_jp("") raises ValueError
VtuberPageRaises(vtuber) == ParseRaises(vtuber.published_at)

\* generate_vtuber_page: the name in <title>, alt and the card name, the
\* introduction cut to 120 characters in the meta description (lines
\* 975-976, 1005, 1013-1015), the introduction escaped in the body (line 1003)
generate_vtuber_page(vtuber) ==
    LET name   == vtuber.title
        intro  == IntroOf(vtuber)
        videos == vtuber.latest_videos
        description   == IF intro # << >> THEN Take(intro, 120) ELSE name
        intro_escaped == IF intro # << >> THEN escape_intro(intro) ELSE << >>
        videos_html   == IF videos # << >> THEN PageVideos(Take(videos, 3)) ELSE << >>
    IN  [channel_id |-> vtuber.channel_id,
         subscriber_count |-> vtuber.subscriber_count,
         published_at |-> vtuber.published_at,
         html |-> <<"<title>">> \o name \o <<"</title>", "<meta description=">> \o description
                  \o <<"/>", "<img alt=">> \o name \o <<"/>", "<div class=card-name>">> \o name
                  \o <<"</div>", "<div class=card-intro>">> \o intro_escaped \o <<"</div>">>
                  \o videos_html]

\* the feed without the cut to 20 items
generate_rss_NoLimit(approved) ==
    LET sorted_list == SortedDesc(approved)
    IN  [i \in 1 .. Len(sorted_list) |-> sorted_list[i].channel_id]

\* generate_rss: the first 20 of the list sorted again (lines 1049-1053)
generate_rss(approved) ==
    LET sorted_list == SortedDesc(approved)
        n == IF Len(sorted_list) < RSS_ITEMS THEN Len(sorted_list) ELSE RSS_ITEMS
    IN  [i \in 1 .. n |-> sorted_list[i].channel_id]

generate_sitemap(approved) == [i \in DOMAIN approved |-> approved[i].channel_id]

\* the file of an index page (line 1137)
index_filename(page) ==
    IF page = 1 THEN "index.html" ELSE "page" \o ToString(page) \o ".html"

\* The index pages written for the sorted list (lines 1135-1140), by file
IndexPages(sorted_approved) ==
    LET total_pages == TotalPages(Len(sorted_approved))
    IN  [f \in { index_filename(p) : p \in 1 .. total_pages } |->
            generate_index_page(sorted_approved,
                                CHOOSE p \in 1 .. total_pages : index_filename(p) = f,
                                total_pages)]

\* The detail pages written for the records of s, in order: a later record
\* with the same slug overwrites the earlier one's file
DetailPages(s) ==
    [c \in Ids(s) |->
        generate_vtuber_page(s[Last({ i \in DOMAIN s : s[i].channel_id = c })])]

\* the files of a directory after the files of `new` are written over `old`
MergePages(new, old) ==
    [c \in (DOMAIN new) \cup (DOMAIN old) |-> IF c \in DOMAIN new THEN new[c] ELSE old[c]]

\* write_all_files: docs/ afterwards, and whether it raised part-way
write_all_files(approved, old) ==
    LET sorted_approved == SortedDesc(approved)
        bad    == { i \in DOMAIN sorted_approved : VtuberPageRaises(sorted_approved[i]) }
        first  == IF bad = {} THEN Len(sorted_approved) + 1
                  ELSE CHOOSE i \in bad : \A j \in bad : i <= j
        done   == SubSeq(sorted_approved, 1, first - 1)
        partial == [old EXCEPT !.css = TRUE,
                               !.index = MergePages(IndexPages(sorted_approved), old.index),
                               !.vtuber = MergePages(DetailPages(done), old.vtuber)]
    IN  IF bad # {}
          THEN [raised |-> TRUE, output |-> partial]
          ELSE [raised |-> FALSE,
                output |-> [partial EXCEPT !.robots = TRUE,
                                           !.sitemap = <<generate_sitemap(sorted_approved)>>,
                                           !.feed = <<generate_rss(sorted_approved)>>,
                                           !.cname = TRUE]]

\* print_candidates: days_ago(published_at) of every pending record (line
\* 1179); the default of .get is not used, the key is present and ""
PendingOf(cands) == SelectSeq(cands, LAMBDA c : c.status = "pending")

PrintRaises(cands) ==
    \E i \in DOMAIN cands : cands[i].status = "pending" /\ ParseRaises(cands[i].published_at)

(***************************************************************************)
(* The process: one run of main() at a time                                *)
(***************************************************************************)
Modes == {"collect", "approve", "approve-all", "generate", "status", "unknown"}

Snapshot == [candidates |-> candidatesFile, approved |-> approvedFile, output |-> output]

Init ==
    /\ candidatesFile = AbsentFile
    /\ approvedFile = AbsentFile
    /\ cacheDir = FALSE
    /\ publicDir = FALSE
    /\ output = NoOutput
    /\ pc = "idle"
    /\ mode = "none"
    /\ youtubeKey = FALSE
    /\ openaiKey = FALSE
    /\ exit = "none"
    /\ candidates = << >>
    /\ pending = << >>
    /\ idx = 0
    /\ indices = << >>
    /\ approved_entry = NoCall
    /\ all_channel_ids = {}
    /\ qi = 0
    /\ lastFetch = NoFetch
    /\ textCall = "none"
    /\ net = NoNet
    /\ clock = 0
    /\ atStart = [candidates |-> AbsentFile, approved |-> AbsentFile, output |-> NoOutput]
    /\ filesRead = {}
    /\ fChannel = ApiDetail("a")
    /\ fThreshold = MAX_SUBSCRIBERS
    /\ fResult = [called |-> FALSE, passes |-> FALSE, reason |-> "none"]

\* the locals die with the process
ClearLocals ==
    /\ candidates' = << >>
    /\ pending' = << >>
    /\ idx' = 0
    /\ indices' = << >>
    /\ approved_entry' = NoCall
    /\ all_channel_ids' = {}
    /\ qi' = 0
    /\ lastFetch' = NoFetch
    /\ textCall' = "none"

\* the process ends: "ok" is exit status 0, "error" is sys.exit(1), "crash" is
\* an uncaught exception (traceback, exit status 1)
Exit(status) ==
    /\ pc' = "exited"
    /\ exit' = status
    /\ ClearLocals

\* the credential check left out
KeyMissing_Never(key) == FALSE

\* the required credential is absent (line 1231)
KeyMissing(key) == ~key

\* main(), lines 1229-1237: ensure_dirs, then the credential check
Begin(m, yk, ok) ==
    /\ pc \in {"idle", "exited"}
    /\ mode' = m
    /\ youtubeKey' = yk
    /\ openaiKey' = ok
    /\ cacheDir' = TRUE
    /\ publicDir' = TRUE
    /\ atStart' = Snapshot
    /\ net' = NoNet
    /\ UNCHANGED filterVars

\* write_all_files(load_json(APPROVED_FILE, [])) and the end of the run
\* (lines 1246-1247, 1267-1268, 1272-1273)
RenderAndExit ==
    IF LoadRaises(approvedFile)
      THEN /\ Exit("crash")
           /\ UNCHANGED output
      ELSE LET w == write_all_files(load_json(approvedFile), output)
           IN  /\ output' = w.output
               /\ Exit(IF w.raised THEN "crash" ELSE "ok")

\* main(), mode "collect", after collect_candidates returned `merged`
\* (lines 1242-1247)
CollectTail(merged) ==
    /\ candidatesFile' = save_json(merged)
    /\ filesRead' = filesRead \cup {"approved"}
    /\ UNCHANGED approvedFile
    /\ IF PrintRaises(merged)
         THEN /\ Exit("crash")
              /\ UNCHANGED output
         ELSE RenderAndExit

MainNoKey(m, yk, ok) ==
    /\ Begin(m, yk, ok)
    /\ KeyMissing(yk)
    /\ Exit("error")
    /\ filesRead' = {}
    /\ UNCHANGED << candidatesFile, approvedFile, output, clock >>

MainUnknown(yk, ok) ==
    /\ Begin("unknown", yk, ok)
    /\ ~KeyMissing(yk)
    /\ Exit("error")
    /\ filesRead' = {}
    /\ UNCHANGED << candidatesFile, approvedFile, output, clock >>

\* the status report writing back the pending collection it has loaded
MainStatus_Saves(yk, ok) ==
    /\ Begin("status", yk, ok)
    /\ ~KeyMissing(yk)
    /\ filesRead' = IF LoadRaises(candidatesFile) THEN {"candidates"}
                    ELSE {"candidates", "approved"}
    /\ Exit(IF LoadRaises(candidatesFile) \/ LoadRaises(approvedFile)
              THEN "crash" ELSE "ok")
    /\ candidatesFile' = IF LoadRaises(candidatesFile) THEN candidatesFile
                         ELSE save_json(load_json(candidatesFile))
    /\ UNCHANGED << approvedFile, output, clock >>

\* main(), mode "status", lines 1275-1283: both collections are loaded and
\* counted
MainStatus(yk, ok) ==
    /\ Begin("status", yk, ok)
    /\ ~KeyMissing(yk)
    /\ filesRead' = IF LoadRaises(candidatesFile) THEN {"candidates"}
                    ELSE {"candidates", "approved"}
    /\ Exit(IF LoadRaises(candidatesFile) \/ LoadRaises(approvedFile)
              THEN "crash" ELSE "ok")
    /\ UNCHANGED << candidatesFile, approvedFile, output, clock >>

MainGenerate(yk, ok) ==
    /\ Begin("generate", yk, ok)
    /\ ~KeyMissing(yk)
    /\ filesRead' = {"approved"}
    /\ RenderAndExit
    /\ UNCHANGED << candidatesFile, approvedFile, clock >>

\* main() into collect_candidates, up to the search loop (lines 399-406)
MainCollect(yk, ok) ==
    /\ Begin("collect", yk, ok)
    /\ ~KeyMissing(yk)
    /\ UNCHANGED << candidatesFile, approvedFile, output, clock >>
    /\ IF LoadRaises(candidatesFile)
         THEN /\ filesRead' = {"candidates"}
              /\ Exit("crash")
         ELSE IF LoadRaises(approvedFile)
         THEN /\ filesRead' = {"candidates", "approved"}
              /\ Exit("crash")
         ELSE /\ filesRead' = {"candidates", "approved"}
              /\ pc' = "search"
              /\ exit' = "running"
              /\ candidates' = load_json(candidatesFile)
              /\ qi' = 1
              /\ all_channel_ids' = {}
              /\ UNCHANGED << pending, idx, indices, approved_entry, lastFetch, textCall >>

\* one pass of `for query in SEARCH_QUERIES` (lines 409-419); `items` are the
\* channels of the response. After the last query, lines 421-423.
SearchStep(outcome, items) ==
    /\ pc = "search"
    /\ outcome # "ok" => items = {}
    /\ net' = NetAfter(net, outcome)
    /\ UNCHANGED << mode, youtubeKey, openaiKey, cacheDir, publicDir, atStart,
                    clock, filterVars >>
    /\ IF ApiRaises(outcome)
         THEN /\ Exit("crash")
              /\ UNCHANGED << candidatesFile, approvedFile, output, filesRead >>
         ELSE LET fresh == { c \in items : /\ c \notin Ids(candidates)
                                           /\ c \notin Ids(load_json(approvedFile))
                                           /\ c \notin all_channel_ids }
                  all   == all_channel_ids \cup fresh
              IN  IF qi < Len(SEARCH_QUERIES)
                    THEN /\ qi' = qi + 1
                         /\ all_channel_ids' = all
                         /\ lastFetch' = api_request(outcome)
                         /\ UNCHANGED textCall
                         /\ UNCHANGED << pc, exit, candidates, pending, idx, indices,
                                         approved_entry, candidatesFile, approvedFile,
                                         output, filesRead >>
                    ELSE IF all = {}
                    THEN CollectTail(candidates)
                    ELSE /\ pc' = "details"
                         /\ all_channel_ids' = all
                         /\ lastFetch' = api_request(outcome)
                         /\ UNCHANGED textCall
                         /\ UNCHANGED << exit, qi, candidates, pending, idx, indices,
                                         approved_entry, candidatesFile, approvedFile,
                                         output, filesRead >>

\* get_channel_details(unique_ids), filtering and merge (lines 426-450), then
\* the rest of the collect run; `order` is the order of the items returned
DetailsStep(outcome, order) ==
    /\ pc = "details"
    /\ outcome # "ok" => order = << >>
    /\ net' = NetAfter(net, outcome)
    /\ UNCHANGED << mode, youtubeKey, openaiKey, cacheDir, publicDir, atStart,
                    filterVars >>
    /\ IF ApiRaises(outcome)
         THEN /\ Exit("crash")
              /\ UNCHANGED << candidatesFile, approvedFile, output, filesRead, clock >>
         ELSE /\ UNCHANGED clock
              /\ CollectTail(candidates \o NewCandidates(order, clock))

\* what get_latest_videos can return: no video, or one (lines 242-251)
Videos == { << >>, << [video_id |-> "v1", title |-> <<"t">>] >> }

\* One call approve_candidate(candidates, channel_id) from a loop of main or
\* cli_approve (lines 462-493); `loop` is what the caller's loop does with
\* its own position when the call returns.
ApproveCall(channel_id, loop) ==
    /\ filesRead' = filesRead \cup {"approved"}
    /\ UNCHANGED << mode, youtubeKey, openaiKey, cacheDir, publicDir, atStart,
                    candidatesFile, output, filterVars >>
    /\ IF LoadRaises(approvedFile)
         THEN /\ Exit("crash")
              /\ UNCHANGED << approvedFile, clock, net >>
         ELSE IF channel_id \notin Ids(candidates)
         THEN /\ approved_entry' = [called |-> TRUE, entry |-> << >>]
              /\ loop
              /\ UNCHANGED << approvedFile, clock, net, candidates, lastFetch, textCall,
                              pc, exit, pending, all_channel_ids, qi >>
         ELSE \E outcome \in FetchOutcomes, videos \in Videos, reply \in Replies(openaiKey) :
              /\ outcome # "ok" => videos = << >>
              /\ net' = NetAfter(net, outcome)
              /\ IF ApiRaises(outcome)
                   THEN /\ Exit("crash")
                        /\ UNCHANGED << approvedFile, clock >>
                   ELSE LET r == approve_candidate(candidates, approvedFile, channel_id,
                                                   videos, openaiKey, reply, clock + 1)
                        IN  /\ clock < MaxClock
                            /\ clock' = clock + 1
                            /\ candidates' = r.candidates
                            /\ approved_entry' = [called |-> TRUE, entry |-> r.entry]
                            /\ approvedFile' = r.file
                            /\ lastFetch' = api_request(outcome)
                            /\ textCall' = text_generation_call(openaiKey, reply)
                            /\ loop
                            /\ UNCHANGED << pc, exit, pending, all_channel_ids, qi >>

\* main(), mode "approve-all", lines 1257-1259
MainApproveAll(yk, ok) ==
    /\ Begin("approve-all", yk, ok)
    /\ ~KeyMissing(yk)
    /\ filesRead' = {"candidates"}
    /\ UNCHANGED << candidatesFile, approvedFile, output, clock >>
    /\ IF LoadRaises(candidatesFile)
         THEN Exit("crash")
         ELSE /\ pc' = "approve_all"
              /\ exit' = "running"
              /\ candidates' = load_json(candidatesFile)
              /\ pending' = PendingOf(load_json(candidatesFile))
              /\ idx' = 1
              /\ UNCHANGED << indices, approved_entry, all_channel_ids, qi, lastFetch, textCall >>

\* one pass of `for c in pending` (lines 1260-1263)
ApproveAllStep ==
    /\ pc = "approve_all"
    /\ idx <= Len(pending)
    /\ ApproveCall(pending[idx].channel_id,
                   idx' = idx + 1 /\ UNCHANGED indices)

\* after the loop: lines 1264-1268
ApproveAllFinish ==
    /\ pc = "approve_all"
    /\ idx > Len(pending)
    /\ candidatesFile' = save_json(candidates)
    /\ filesRead' = filesRead \cup {"approved"}
    /\ RenderAndExit
    /\ UNCHANGED << mode, youtubeKey, openaiKey, cacheDir, publicDir, atStart,
                    approvedFile, clock, net, filterVars >>

\* main(), mode "approve", into cli_approve up to the prompt (lines 1251-1252,
\* 1188-1194); with nothing pending cli_approve returns and main saves
MainApprove(yk, ok) ==
    /\ Begin("approve", yk, ok)
    /\ ~KeyMissing(yk)
    /\ filesRead' = {"candidates"}
    /\ UNCHANGED << approvedFile, output, clock >>
    /\ IF LoadRaises(candidatesFile)
         THEN /\ Exit("crash")
              /\ UNCHANGED candidatesFile
         ELSE IF PendingOf(load_json(candidatesFile)) = << >>
         THEN /\ candidatesFile' = save_json(load_json(candidatesFile))
              /\ Exit("ok")
         ELSE IF PrintRaises(load_json(candidatesFile))
         THEN /\ Exit("crash")
              /\ UNCHANGED candidatesFile
         ELSE /\ pc' = "cli_input"
              /\ exit' = "running"
              /\ candidates' = load_json(candidatesFile)
              /\ pending' = PendingOf(load_json(candidatesFile))
              /\ UNCHANGED << candidatesFile, idx, indices, approved_entry,
                              all_channel_ids, qi, lastFetch, textCall >>

runVars == << mode, youtubeKey, openaiKey, cacheDir, publicDir, atStart, net,
              clock, filesRead, filterVars >>

\* the operator types q: break, then main saves (lines 1198-1199, 1253)
CliQuit ==
    /\ pc = "cli_input"
    /\ candidatesFile' = save_json(candidates)
    /\ Exit("ok")
    /\ UNCHANGED << runVars, approvedFile, output >>

\* input() raises EOFError (end of input): nothing catches it
CliEof ==
    /\ pc = "cli_input"
    /\ Exit("crash")
    /\ UNCHANGED << runVars, candidatesFile, approvedFile, output >>

\* a line that is not a list of integers: ValueError, caught at line 1211,
\* before any index of the line is used
CliBadInput ==
    /\ pc = "cli_input"
    /\ pending' = PendingOf(candidates)
    /\ UNCHANGED << runVars, candidatesFile, approvedFile, output, pc, exit,
                    candidates, idx, indices, approved_entry, all_channel_ids,
                    qi, lastFetch, textCall >>

InputLines == { <<1>>, <<2>>, <<1, 1>>, <<1, 2>>, <<3>> }

\* a line of integers (line 1202)
CliIndices(line) ==
    /\ pc = "cli_input"
    /\ pc' = "cli_line"
    /\ indices' = line
    /\ UNCHANGED << runVars, candidatesFile, approvedFile, output, exit,
                    candidates, pending, idx, approved_entry, all_channel_ids,
                    qi, lastFetch, textCall >>

\* the index picks a row of `pending` (line 1204)
ValidIndex(i, pend) == 1 <= i /\ i <= Len(pend)

\* one pass of `for idx in indices` (lines 1203-1210)
CliLineStep ==
    /\ pc = "cli_line"
    /\ indices # << >>
    /\ IF ValidIndex(Head(indices), pending)
         THEN ApproveCall(pending[Head(indices)].channel_id,
                          indices' = Tail(indices) /\ UNCHANGED idx)
         ELSE /\ indices' = Tail(indices)
              /\ UNCHANGED << runVars, candidatesFile, approvedFile, output, pc,
                              exit, candidates, pending, idx, approved_entry,
                              all_channel_ids, qi, lastFetch, textCall >>

\* the line is done: refresh `pending`, leave the loop when it is empty
\* (lines 1215-1218) and save (line 1253)
CliLineEnd ==
    /\ pc = "cli_line"
    /\ indices = << >>
    /\ UNCHANGED << runVars, approvedFile, output >>
    /\ IF PendingOf(candidates) = << >>
         THEN /\ candidatesFile' = save_json(candidates)
              /\ Exit("ok")
         ELSE /\ pc' = "cli_input"
              /\ pending' = PendingOf(candidates)
              /\ UNCHANGED << candidatesFile, exit, candidates, idx, indices,
                              approved_entry, all_channel_ids, qi, lastFetch, textCall >>

\* Outside the program: a persisted file is damaged between two runs (a
\* truncated write, an edit by hand) and no longer parses. What is recorded
\* of the last run is forgotten: the Store is no longer as that run left it.
Damage(which) ==
    /\ pc \in {"idle", "exited"}
    /\ pc' = "idle"
    /\ IF which = "candidates"
         THEN /\ candidatesFile.state = "ok"
              /\ candidatesFile' = CorruptFile
              /\ UNCHANGED approvedFile
         ELSE /\ approvedFile.state = "ok"
              /\ approvedFile' = CorruptFile
              /\ UNCHANGED candidatesFile
    /\ mode' = "none"
    /\ youtubeKey' = FALSE
    /\ openaiKey' = FALSE
    /\ exit' = "none"
    /\ net' = NoNet
    /\ filesRead' = {}
    /\ atStart' = [candidates |-> AbsentFile, approved |-> AbsentFile, output |-> NoOutput]
    /\ UNCHANGED << cacheDir, publicDir, output, candidates, pending, idx, indices,
                    approved_entry, all_channel_ids, qi, lastFetch, textCall, clock,
                    filterVars >>

\* OPENAI_API_KEY is read by generate_introduction alone, which only the
\* approving modes reach: elsewhere its value is left out of the state
OpenaiKeys(m) == IF m \in {"approve", "approve-all"} THEN BOOLEAN ELSE {FALSE}

Next ==
    \/ \E m \in Modes, yk \in BOOLEAN : \E ok \in OpenaiKeys(m) : MainNoKey(m, yk, ok)
    \/ \E yk \in BOOLEAN, ok \in OpenaiKeys("unknown") : MainUnknown(yk, ok)
    \/ \E yk \in BOOLEAN, ok \in OpenaiKeys("status") : MainStatus(yk, ok)
    \/ \E yk \in BOOLEAN, ok \in OpenaiKeys("generate") : MainGenerate(yk, ok)
    \/ \E yk \in BOOLEAN, ok \in OpenaiKeys("collect") : MainCollect(yk, ok)
    \/ \E yk \in BOOLEAN, ok \in BOOLEAN : MainApproveAll(yk, ok)
    \/ \E yk \in BOOLEAN, ok \in BOOLEAN : MainApprove(yk, ok)
    \/ \E outcome \in FetchOutcomes, items \in SUBSET ChannelIds : SearchStep(outcome, items)
    \/ \E outcome \in FetchOutcomes, S \in SUBSET all_channel_ids :
           \E order \in Orders(S) : DetailsStep(outcome, order)
    \/ ApproveAllStep
    \/ ApproveAllFinish
    \/ CliQuit
    \/ CliEof
    \/ CliBadInput
    \/ \E line \in InputLines : CliIndices(line)
    \/ CliLineStep
    \/ CliLineEnd
    \/ \E which \in {"candidates", "approved"} : Damage(which)

Spec == Init /\ [][Next]_vars

(***************************************************************************)
(* The filter on its own: passes_filters applied to one channel            *)
(***************************************************************************)
FilterInputs ==
    [channel_id : {"a"},
     title : { << >>, <<"V">>, <<"l">> },
     description : { << >>, <<"D">>, <<"x">> },
     keywords : { << >>, <<"L", "D">> },
     published_at : { << >>, <<Today - 20>>, <<Today - 180>>, <<Today - 181>>,
                      <<Today - 182>>, <<Today - 200>> },
     subscriber_count : { HIDDEN_SUBSCRIBERS, 0, MAX_SUBSCRIBERS, MAX_SUBSCRIBERS + 1 },
     video_count : { MIN_VIDEOS - 1, MIN_VIDEOS }]

Thresholds == { MAX_SUBSCRIBERS, 0, 0 - 2 }

FilterInit ==
    /\ candidatesFile = AbsentFile
    /\ approvedFile = AbsentFile
    /\ cacheDir = FALSE
    /\ publicDir = FALSE
    /\ output = NoOutput
    /\ pc = "idle"
    /\ mode = "none"
    /\ youtubeKey = FALSE
    /\ openaiKey = FALSE
    /\ exit = "none"
    /\ candidates = << >>
    /\ pending = << >>
    /\ idx = 0
    /\ indices = << >>
    /\ approved_entry = NoCall
    /\ all_channel_ids = {}
    /\ qi = 0
    /\ lastFetch = NoFetch
    /\ textCall = "none"
    /\ net = NoNet
    /\ clock = 0
    /\ atStart = [candidates |-> AbsentFile, approved |-> AbsentFile, output |-> NoOutput]
    /\ filesRead = {}
    /\ fChannel \in FilterInputs
    /\ fThreshold \in Thresholds
    /\ fResult = [called |-> FALSE, passes |-> FALSE, reason |-> "none"]

ApplyFilter ==
    /\ ~fResult.called
    /\ fResult' = [called |-> TRUE,
                   passes |-> passes_filters_with(fChannel, fThreshold).passes,
                   reason |-> passes_filters_with(fChannel, fThreshold).reason]
    /\ UNCHANGED << storeVars, pc, mode, youtubeKey, openaiKey, exit, candidates,
                    pending, idx, indices, approved_entry, all_channel_ids, qi,
                    lastFetch, textCall, net, clock, atStart, filesRead, fChannel, fThreshold >>

FilterNext == ApplyFilter

FilterSpec == FilterInit /\ [][FilterNext]_vars

(***************************************************************************)
(* Rendering on its own: generate runs over approved collections of every  *)
(* size up to MaxApproved                                                  *)
(***************************************************************************)
KeyPatterns  == {"ascending", "ties", "mixed"}
TextPatterns == {"plain", "markup", "undated"}

\* The i-th record of an approved collection of n records, as approve_candidate
\* leaves a record in approved.json:
\*   ascending  approved one after the other, as the file grows
\*   ties       pairs of records with the same approval time
\*   mixed      every other record without approved_at (added by hand),
\*              ordered by its discovery time
\*   markup     text fields that hold &, <, > and a line break
\*   undated    the first record has no creation timestamp
ApprovedRecord(i, n, keys, text) ==
    [channel_id |-> "ch" \o ToString(i),
     title |-> IF text = "markup" THEN <<"<", "V", ">">> ELSE <<"V">>,
     description |-> << >>,
     keywords |-> << >>,
     published_at |-> IF text = "undated" /\ i = 1 THEN << >> ELSE <<Today - 20>>,
     subscriber_count |-> 500,
     video_count |-> 3,
     discovered_at |-> <<n - i>>,
     status |-> "approved",
     latest_videos |->
         IF i % 2 = 0 THEN << >>
         ELSE << [video_id |-> "v1",
                  title |-> IF text = "markup" THEN <<"a", "<", "b">> ELSE <<"t">>] >>,
     introduction |->
         IF text = "markup" THEN << <<"x", "&", "<", "y", ">", "\n", "z">> >> ELSE << <<"G">> >>,
     approved_at |->
         CASE keys = "ascending" -> <<n + i>>
           [] keys = "ties"      -> <<n + (i \div 2)>>
           [] OTHER              -> IF i % 2 = 1 THEN << >> ELSE <<n + i>>]

RenderInputs ==
    { [i \in 1 .. n |-> ApprovedRecord(i, n, keys, text)] :
          n \in 0 .. MaxApproved, keys \in KeyPatterns, text \in TextPatterns }

RenderInit ==
    /\ candidatesFile = AbsentFile
    /\ approvedFile \in { save_json(list) : list \in RenderInputs }
    /\ cacheDir = TRUE
    /\ publicDir = TRUE
    /\ output = NoOutput
    /\ pc = "idle"
    /\ mode = "none"
    /\ youtubeKey = FALSE
    /\ openaiKey = FALSE
    /\ exit = "none"
    /\ candidates = << >>
    /\ pending = << >>
    /\ idx = 0
    /\ indices = << >>
    /\ approved_entry = NoCall
    /\ all_channel_ids = {}
    /\ qi = 0
    /\ lastFetch = NoFetch
    /\ textCall = "none"
    /\ net = NoNet
    /\ clock = 0
    /\ atStart = [candidates |-> AbsentFile, approved |-> AbsentFile, output |-> NoOutput]
    /\ filesRead = {}
    /\ fChannel = ApiDetail("a")
    /\ fThreshold = MAX_SUBSCRIBERS
    /\ fResult = [called |-> FALSE, passes |-> FALSE, reason |-> "none"]

RenderNext == MainGenerate(TRUE, FALSE)

RenderSpec == RenderInit /\ [][RenderNext]_vars

(***************************************************************************)
(* The interactive approval on its own: approve runs over a pending        *)
(* collection of several records that print_candidates can list            *)
(***************************************************************************)
\* a channel like "a" (young, a keyword in its title) under another identifier
ListedDetail(cid) == [ApiDetail("a") EXCEPT !.channel_id = cid]

\* the identifiers of candidates.json, in the order of the file
CliInputs == { <<"a", "d">>, <<"d", "a">>, <<"a", "d", "e">> }

CliInit ==
    /\ candidatesFile \in
           { save_json([i \in DOMAIN ids |-> Candidate(ListedDetail(ids[i]), 0)]) :
                 ids \in CliInputs }
    /\ approvedFile = AbsentFile
    /\ cacheDir = TRUE
    /\ publicDir = TRUE
    /\ output = NoOutput
    /\ pc = "idle"
    /\ mode = "none"
    /\ youtubeKey = FALSE
    /\ openaiKey = FALSE
    /\ exit = "none"
    /\ candidates = << >>
    /\ pending = << >>
    /\ idx = 0
    /\ indices = << >>
    /\ approved_entry = NoCall
    /\ all_channel_ids = {}
    /\ qi = 0
    /\ lastFetch = NoFetch
    /\ textCall = "none"
    /\ net = NoNet
    /\ clock = 0
    /\ atStart = [candidates |-> AbsentFile, approved |-> AbsentFile, output |-> NoOutput]
    /\ filesRead = {}
    /\ fChannel = ApiDetail("a")
    /\ fThreshold = MAX_SUBSCRIBERS
    /\ fResult = [called |-> FALSE, passes |-> FALSE, reason |-> "none"]

CliNext ==
    \/ \E ok \in BOOLEAN : MainApprove(TRUE, ok)
    \/ CliQuit
    \/ CliEof
    \/ CliBadInput
    \/ \E line \in InputLines : CliIndices(line)
    \/ CliLineStep
    \/ CliLineEnd

CliSpec == CliInit /\ [][CliNext]_vars

(***************************************************************************)
(* Properties                                                              *)
(***************************************************************************)
Idle == pc \in {"idle", "exited"}

\* a step in which approve_candidate is called and returns
ApproveReturns ==
    \/ pc = "approve_all" /\ pc' = "approve_all" /\ idx' = idx + 1
    \/ /\ pc = "cli_line" /\ pc' = "cli_line"
       /\ indices # << >>
       /\ ValidIndex(Head(indices), pending)
       /\ indices' = Tail(indices)

\* the identifier passed in that call
ApprovedId ==
    IF pc = "approve_all" THEN pending[idx].channel_id
    ELSE pending[Head(indices)].channel_id

\* C1: approve_candidate(X) with X in the pending list returns the list
\* without X, returns the entry of X and appends exactly that one entry to
\* the approved collection; with X not in the list (as on a second call on
\* the returned list) it returns the list unchanged and no entry, and the
\* approved collection is left as it was.
C1_ApproveMovesExactlyOnce ==
    [][ApproveReturns =>
          LET X      == ApprovedId
              before == load_json(approvedFile)
              after  == load_json(approvedFile')
          IN  IF X \in Ids(candidates)
                THEN /\ X \notin Ids(candidates')
                     /\ \A c \in Ids(candidates) \ {X} : Count(candidates', c) = Count(candidates, c)
                     /\ Len(after) = Len(before) + 1
                     /\ SubSeq(after, 1, Len(before)) = before
                     /\ after[Len(after)].channel_id = X
                     /\ approved_entry' = [called |-> TRUE, entry |-> <<after[Len(after)]>>]
                ELSE /\ candidates' = candidates
                     /\ approved_entry' = [called |-> TRUE, entry |-> << >>]
                     /\ approvedFile' = approvedFile]_vars

\* C1 witness: X was approved and approve_candidate(X) was called again on
\* the returned list (the line "1,1"): it returned no entry, X is once in the
\* approved collection
C1_SecondCallWasNoOp ==
    /\ pc = "cli_line"
    /\ indices = << >>
    /\ approved_entry = [called |-> TRUE, entry |-> << >>]
    /\ \E c \in Ids(pending) :
          /\ c \notin Ids(candidates)
          /\ Count(load_json(approvedFile), c) = 1

\* C2: between runs, an identifier of the approved collection is not in the
\* pending collection, and every approved record has status approved.
C2_ApprovedNeverPending ==
    Idle => \A i \in DOMAIN approvedFile.data :
                /\ approvedFile.data[i].status = "approved"
                /\ approvedFile.data[i].channel_id \notin Ids(candidatesFile.data)

\* C3: neither persisted collection holds two records with the same
\* channel identifier.
C3_UniqueIdentifiers ==
    /\ NoDuplicateIds(candidatesFile.data)
    /\ NoDuplicateIds(approvedFile.data)

C4_PopularityOk == \/ fChannel.subscriber_count <= fThreshold
                   \/ fChannel.subscriber_count = HIDDEN_SUBSCRIBERS

\* the age in whole days is at most the maximum: fewer than MAX + 1 full days
\* (of two half-days) have gone by
C4_AgeAtMostMax ==
    /\ fChannel.published_at # << >>
    /\ Today - fChannel.published_at[1] < 2 * (MAX_CHANNEL_AGE_DAYS + 1)

C4_CountOk == fChannel.video_count >= MIN_VIDEOS

\* a keyword has no blank, so it is in the joined text iff it is in a field
C4_KeywordOk ==
    \E k \in DOMAIN VTUBER_KEYWORDS :
        \E field \in {fChannel.title, fChannel.description, fChannel.keywords} :
            IsSubstring(Lower(VTUBER_KEYWORDS[k]), Lower(field))

C4_Verdict(ageOk) ==
    IF ~C4_PopularityOk THEN "subscribers"
    ELSE IF ~ageOk THEN "age"
    ELSE IF ~C4_CountOk THEN "videos"
    ELSE IF ~C4_KeywordOk THEN "keyword"
    ELSE "OK"

\* C4 as stated: passes_filters passes exactly when the four checks hold,
\* the age check being "age in whole days at most the maximum", and reports
\* the first failing check.
C4_PassesIffFourChecks ==
    fResult.called =>
        /\ fResult.reason = C4_Verdict(C4_AgeAtMostMax)
        /\ fResult.passes <=> (C4_Verdict(C4_AgeAtMostMax) = "OK")

\* C4 amended: the age check also holds when the record has no creation
\* timestamp (published_at is empty); otherwise as stated: pass exactly when
\* the four checks hold, else the reason of the first failing check in the
\* order popularity, age, content count, keyword.
C4_PassesIffChecksOrNoTimestamp ==
    fResult.called =>
        /\ fResult.reason = C4_Verdict(fChannel.published_at = << >> \/ C4_AgeAtMostMax)
        /\ fResult.passes <=>
              (C4_Verdict(fChannel.published_at = << >> \/ C4_AgeAtMostMax) = "OK")

\* C4 witness: a channel of exactly the maximum age (90 days and a half) that
\* fails on the content count, its keyword check failing too: the earlier
\* failing check is the one reported
C4_FirstFailureReported ==
    /\ fResult.called
    /\ fResult.reason = "videos"
    /\ fChannel.published_at = <<Today - 181>>
    /\ ~C4_KeywordOk

\* C5: a record whose popularity metric is the hidden sentinel is never
\* rejected for popularity, whatever the threshold.
C5_HiddenCountPassesPopularity ==
    (fResult.called /\ fChannel.subscriber_count = HIDDEN_SUBSCRIBERS)
        => fResult.reason # "subscribers"

\* C5 witness: the sentinel under a threshold below it, and the record passed
C5_HiddenUnderLowThreshold ==
    /\ fResult.called
    /\ fChannel.subscriber_count = HIDDEN_SUBSCRIBERS
    /\ fThreshold < HIDDEN_SUBSCRIBERS
    /\ fResult.passes

\* C6: after a transient failure (a 5xx, a network error) api_request has
\* made more than one attempt before it returned no data.
C6_TransientFailureRetried ==
    (lastFetch.called /\ lastFetch.outcome \in HandledFailures)
        => lastFetch.attempts > 1 /\ lastFetch.nodata

\* C7: a run that loaded an unparsable collection file does not end with an
\* error.
C7_CorruptCacheNotFatal ==
    (pc = "exited" /\ \E f \in filesRead : atStart[f].state = "corrupt")
        => exit = "ok"

\* C8: with the search credential absent the run exits non-zero, whatever
\* the mode, having issued no fetch, read no collection and changed neither
\* the collections nor the rendered output.
C8_NoKeyFailsFast ==
    (pc = "exited" /\ ~youtubeKey) =>
        /\ exit = "error"
        /\ ~net.issued
        /\ filesRead = {}
        /\ candidatesFile = atStart.candidates
        /\ approvedFile = atStart.approved
        /\ output = atStart.output

\* C8 witness: a collect run without the credential over a Store that holds
\* a pending and an approved record
C8_NoKeyOverFilledStore ==
    /\ pc = "exited"
    /\ ~youtubeKey
    /\ mode = "collect"
    /\ candidatesFile.data # << >>
    /\ approvedFile.data # << >>

\* every document write_all_files makes of an approved list
RenderedSite(approved) ==
    LET sorted_approved == SortedDesc(approved)
    IN  [css |-> TRUE,
         index |-> IndexPages(sorted_approved),
         vtuber |-> DetailPages(sorted_approved),
         robots |-> TRUE,
         sitemap |-> <<generate_sitemap(sorted_approved)>>,
         feed |-> <<generate_rss(sorted_approved)>>,
         cname |-> TRUE]

\* C9: after a run that renders, docs/ holds the complete set of documents of
\* the current approved collection, or exactly what it held before the run.
C9_RenderAllOrNothing ==
    (pc = "exited" /\ youtubeKey /\ mode \in {"collect", "approve-all", "generate"})
        => \/ output = atStart.output
           \/ output = RenderedSite(load_json(approvedFile))

\* C10: a collect run all of whose requests failed with an HTTP or network
\* error ends normally, the pending collection persisted is the one loaded at
\* the start, and the site is rendered from the approved collection.
C10_FailedCollectKeepsPendingAndRenders ==
    (pc = "exited" /\ mode = "collect" /\ net.issued /\ net.allFailed) =>
        /\ exit = "ok"
        /\ candidatesFile = save_json(load_json(atStart.candidates))
        /\ output = RenderedSite(load_json(approvedFile))

\* a state from which the next step of the run is a call of approve_candidate
ApproveStarts ==
    \/ pc = "approve_all" /\ idx <= Len(pending)
    \/ pc = "cli_line" /\ indices # << >> /\ ValidIndex(Head(indices), pending)

\* C11: a call of approve_candidate for a record of the pending list (the
\* approved collection being readable) completes the transition whatever the
\* collaborators do: it returns the record with status approved, appended to
\* the approved collection; with an empty video list when the video fetch
\* failed; with the fallback introduction when the text-generation credential
\* is missing (no call made then) or the call failed.
C11_ApprovalAlwaysCompletes ==
    [][(ApproveStarts /\ ApprovedId \in Ids(candidates) /\ ~LoadRaises(approvedFile)) =>
          LET X     == ApprovedId
              found == candidates[Last({ i \in DOMAIN candidates :
                                            candidates[i].channel_id = X })]
              after == load_json(approvedFile')
          IN  /\ approved_entry'.called
              /\ approved_entry'.entry # << >>
              /\ approved_entry'.entry[1].channel_id = X
              /\ approved_entry'.entry[1].status = "approved"
              /\ after # << >> /\ after[Len(after)] = approved_entry'.entry[1]
              /\ X \notin Ids(candidates')
              /\ lastFetch'.outcome # "ok" => approved_entry'.entry[1].latest_videos = << >>
              /\ ~openaiKey => textCall' = "skipped"
              /\ textCall' \in {"skipped", "failed"} =>
                    approved_entry'.entry[1].introduction =
                        <<generate_fallback_introduction(found)>>]_vars

\* C12: every step of the program leaves the records of the approved
\* collection in place and in order, as a prefix of the new collection; a
\* call of approve_candidate that approves appends exactly one record, every
\* other step leaves the collection as it was. (A step that leaves the file
\* unparsable is not a step of the program.)
C12_ApprovedAppendOnly ==
    [][approvedFile'.state # "corrupt" =>
          LET before == load_json(approvedFile)
              after  == load_json(approvedFile')
          IN  /\ Len(after) >= Len(before)
              /\ SubSeq(after, 1, Len(before)) = before
              /\ IF ApproveReturns /\ ApprovedId \in Ids(candidates)
                   THEN Len(after) = Len(before) + 1
                   ELSE after = before]_vars

\* C12 witness: a run has appended a record to an approved collection that
\* held one already
C12_AppendedToNonEmpty ==
    /\ pc = "exited"
    /\ mode \in {"approve", "approve-all"}
    /\ Len(load_json(atStart.approved)) = 1
    /\ Len(load_json(approvedFile)) = 2
    /\ load_json(approvedFile)[1] = load_json(atStart.approved)[1]

\* a generate run has ended over a readable approved collection
Rendered == pc = "exited" /\ mode = "generate" /\ youtubeKey /\ ~LoadRaises(approvedFile)

\* ceil(n / ITEMS_PER_PAGE), at least 1: the least k >= 1 with k pages of
\* ITEMS_PER_PAGE records holding n records
PagesNeeded(n) ==
    CHOOSE k \in 1 .. (n + 1) :
        /\ k * ITEMS_PER_PAGE >= n
        /\ k > 1 => (k - 1) * ITEMS_PER_PAGE < n

\* the document of index page i: the default name for page 1
PageFile(i) == IF i = 1 THEN "index.html" ELSE "page" \o ToString(i) \o ".html"

\* the cards of the pages 1 .. k, one after the other
RECURSIVE CardsUpTo(_)
CardsUpTo(k) ==
    IF k = 0 THEN << >> ELSE CardsUpTo(k - 1) \o output.index[PageFile(k)].cards

\* the record of the approved collection with the identifier of a card
RecordOf(card) ==
    LET approved == load_json(approvedFile)
    IN  approved[CHOOSE i \in DOMAIN approved : approved[i].channel_id = card.channel_id]

\* C13: after write_all_files over an approved list of N records the index
\* pages are max(1, ceil(N / ITEMS_PER_PAGE)) documents, page 1 index.html and
\* page i > 1 page<i>.html, and the cards of the pages 1 .. total_pages, one
\* after the other, are the cards of the N records, each once, in descending
\* order of approval (else discovery) time.
C13_PagesPartitionSortedList ==
    Rendered =>
        LET approved == load_json(approvedFile)
            N        == Len(approved)
            K        == PagesNeeded(N)
            cards    == CardsUpTo(K)
        IN  /\ DOMAIN output.index = { PageFile(i) : i \in 1 .. K }
            /\ \A i \in 1 .. K : /\ output.index[PageFile(i)].page = i
                                 /\ output.index[PageFile(i)].total_pages = K
            /\ Len(cards) = N
            /\ { cards[i].channel_id : i \in DOMAIN cards } = Ids(approved)
            /\ \A i \in DOMAIN cards : cards[i] = render_vtuber_card(RecordOf(cards[i]))
            /\ \A i, j \in DOMAIN cards :
                   i < j => SortKey(RecordOf(cards[i])) >= SortKey(RecordOf(cards[j]))

\* C13 witness: a list of two full pages and one record more is rendered on
\* three pages, the last holding the one record
C13_ThreePages ==
    /\ Rendered
    /\ Len(load_json(approvedFile)) = 2 * ITEMS_PER_PAGE + 1
    /\ DOMAIN output.index = {"index.html", "page2.html", "page3.html"}
    /\ Len(output.index["page3.html"].cards) = 1

\* the tokens of html from position k on start with the characters of e
StartsAt(html, k, e) ==
    /\ k + Len(e) - 1 <= Len(html)
    /\ \A i \in DOMAIN e : html[k + i - 1] = e[i]

\* no character <, > or & of a text field is in the document as it is: an &
\* is the start of one of the three entities
NoRawAngle(html) ==
    \A k \in DOMAIN html :
        /\ html[k] \notin {"<", ">"}
        /\ html[k] = "&" => \/ StartsAt(html, k, <<"&", "a", "m", "p", ";">>)
                            \/ StartsAt(html, k, <<"&", "l", "t", ";">>)
                            \/ StartsAt(html, k, <<"&", "g", "t", ";">>)

\* C14: in every index card and every detail page written, the characters
\* &, < and > of the record's text fields (name, introduction, video titles)
\* are escaped wherever the field is embedded: outside the tags of the
\* template the document holds no < and no >, and no & but in an entity.
C14_TextFieldsEscapedEverywhere ==
    Rendered =>
        /\ \A f \in DOMAIN output.index :
               \A i \in DOMAIN output.index[f].cards :
                   NoRawAngle(output.index[f].cards[i].html)
        /\ \A c \in DOMAIN output.vtuber : NoRawAngle(output.vtuber[c].html)

\* the approval time of the record with identifier cid, its discovery time
\* when it has none
TimeOf(cid) ==
    LET approved == load_json(approvedFile)
    IN  SortKey(approved[CHOOSE i \in DOMAIN approved : approved[i].channel_id = cid])

\* C15: generate_rss of an approved list of N records has min(N, 20) items,
\* each a record of the list and none twice, in descending order of approval
\* (else discovery) time, and no record left out is newer than a record
\* listed; feed.xml, when the render gets to it, is that feed.
C15_FeedIsNewestTwenty ==
    Rendered =>
        LET approved == load_json(approvedFile)
            N        == Len(approved)
            feed     == generate_rss(approved)
        IN  /\ Len(feed) = IF N < 20 THEN N ELSE 20
            /\ \A i \in DOMAIN feed : feed[i] \in Ids(approved)
            /\ \A i, j \in DOMAIN feed : feed[i] = feed[j] => i = j
            /\ \A i, j \in DOMAIN feed : i < j => TimeOf(feed[i]) >= TimeOf(feed[j])
            /\ \A i \in DOMAIN feed :
                   \A cid \in Ids(approved) \ { feed[k] : k \in DOMAIN feed } :
                       TimeOf(cid) <= TimeOf(feed[i])
            /\ exit = "ok" => output.feed = <<feed>>

\* C15 witness: a feed written for more than 20 records approved one after
\* the other: 20 items, the record approved last first
C15_FeedOfLongList ==
    /\ Rendered
    /\ exit = "ok"
    /\ Len(load_json(approvedFile)) = MaxApproved
    /\ Len(output.feed[1]) = 20
    /\ output.feed[1][1] = load_json(approvedFile)[MaxApproved].channel_id
    /\ "ch1" \notin { output.feed[1][k] : k \in DOMAIN output.feed[1] }

\* a record without creation timestamp is in one of the persisted collections
UndatedInStore ==
    \E r \in { load_json(candidatesFile)[i] : i \in DOMAIN load_json(candidatesFile) }
             \cup { load_json(approvedFile)[i] : i \in DOMAIN load_json(approvedFile) } :
        r.published_at = << >>

\* nothing else stopped the run: no request raised out of api_request and no
\* file it read was unparsable
NothingElseFailed ==
    /\ ~net.raised
    /\ \A f \in filesRead : atStart[f].state # "corrupt"

\* C16: a record whose published_at is empty makes no operation fail: with
\* such a record in the Store, a collect, approve-all or generate run that
\* nothing else stopped ends normally, and so does an approve run that has
\* such a record to list.
C16_NoTimestampNeverFatal ==
    (pc = "exited" /\ youtubeKey /\ UndatedInStore /\ NothingElseFailed) =>
        /\ mode \in {"collect", "approve-all", "generate"} => exit = "ok"
        /\ (mode = "approve" /\ PrintRaises(load_json(atStart.candidates))) => exit = "ok"

\* C17: while an approve or approve-all run is between two approvals (at the
\* prompt, between two indices of a line, between two passes of the
\* approve-all loop, a record still pending), the Store having been
\* consistent when the run started, no identifier is both in the persisted pending file and in the persisted
\* approved file.
C17_PersistedConsistentBetweenApprovals ==
    (/\ pc \in {"approve_all", "cli_line", "cli_input"}
     /\ PendingOf(candidates) # << >>
     /\ Ids(load_json(atStart.candidates)) \cap Ids(load_json(atStart.approved)) = {})
        => Ids(load_json(candidatesFile)) \cap Ids(load_json(approvedFile)) = {}

\* C18: when an approve-all run has ended, both files having been readable
\* and disjoint at its start, no record of the persisted pending collection
\* is pending and every record that was pending at the start is exactly once
\* in the approved collection, with status approved and an approval time,
\* whatever became of the requests of the run.
C18_ApproveAllApprovesEveryPending ==
    (/\ pc = "exited" /\ mode = "approve-all" /\ youtubeKey
     /\ atStart.candidates.state # "corrupt"
     /\ atStart.approved.state # "corrupt"
     /\ Ids(load_json(atStart.candidates)) \cap Ids(load_json(atStart.approved)) = {})
        => LET before   == PendingOf(load_json(atStart.candidates))
               approved == load_json(approvedFile)
           IN  /\ PendingOf(load_json(candidatesFile)) = << >>
               /\ \A i \in DOMAIN before :
                      /\ Count(approved, before[i].channel_id) = 1
                      /\ \A j \in DOMAIN approved :
                             approved[j].channel_id = before[i].channel_id =>
                                 /\ approved[j].status = "approved"
                                 /\ approved[j].approved_at # << >>

\* the listing print_candidates printed when the approve run started: the
\* pending records of candidates.json as loaded, numbered from 1
Listing == PendingOf(load_json(atStart.candidates))

\* C19: in the interactive loop, when approve_candidate returns for an
\* accepted index n, on whatever line of the session, the candidate the
\* listing shows under n is approved, and a record approved by that call is
\* that candidate.
C19_IndexApprovesListedCandidate ==
    [][(ApproveReturns /\ pc = "cli_line") =>
          LET n == Head(indices)
          IN  /\ n \in DOMAIN Listing
              /\ Listing[n].channel_id \in Ids(load_json(approvedFile'))
              /\ approved_entry'.entry # << >> =>
                     approved_entry'.entry[1].channel_id = Listing[n].channel_id]_vars

\* C20: a generate run and a status run leave candidates.json and
\* approved.json as they were when the run started; a status run leaves the
\* documents under docs/ as they were; an approve run, at every point of it
\* and when it has ended, has left the documents under docs/ as they were.
C20_FrameOfGenerateStatusApprove ==
    /\ (pc = "exited" /\ mode \in {"generate", "status"}) =>
           /\ candidatesFile = atStart.candidates
           /\ approvedFile = atStart.approved
    /\ (pc = "exited" /\ mode = "status") => output = atStart.output
    /\ mode = "approve" => output = atStart.output

\* C20 witness: a generate run over a Store with pending and approved records
\* has rewritten docs/ and ended normally
C20_GenerateOverFilledStore ==
    /\ pc = "exited"
    /\ mode = "generate"
    /\ exit = "ok"
    /\ output # atStart.output
    /\ load_json(candidatesFile) # << >>
    /\ load_json(approvedFile) # << >>

=============================================================================
